---- MODULE Spec2Model ----
(***************************************************************************)
(* Leave Management Service: the leave lifecycle and its authorization,    *)
(* as implemented by app/api/routes/leaves.py, app/core/permissions.py,    *)
(* app/core/security.py, app/schemas/leave.py and                          *)
(* app/services/employee_service.py.                                       *)
(*                                                                         *)
(* Every endpoint that reads a row and later commits it (approve, reject,  *)
(* both cancels, the legacy status update) is split at the only point      *)
(* where another request can interleave: between session.get() and         *)
(* session.commit().  The first half runs the role gate, the body          *)
(* validation, the directory lookup and every check of the handler on the  *)
(* row it has read; the second half is the UPDATE that commit() flushes.   *)
(* The ORM flushes only the columns whose value differs from the value     *)
(* that was loaded, and the UPDATE carries no condition on the status      *)
(* column (MySQL, app/core/config.py database_url).                        *)
(***************************************************************************)
EXTENDS Integers, Sequences, FiniteSets, TLC

(* ------------------------------ bounds --------------------------------- *)
MaxLeaves == 1
MaxRequests == 3
MaxInflight == 2

(* --------------------------- optional values --------------------------- *)
None == <<>>
Some(x) == <<x>>

(* ------------------------- app/models: LeaveStatus --------------------- *)
PENDING == "pending"
APPROVED == "approved"
REJECTED == "rejected"
CANCELLED == "cancelled"
LeaveStatus == {PENDING, APPROVED, REJECTED, CANCELLED}
ANNUAL == "annual"

(* ------------------------- app/core/permissions.py --------------------- *)
GROUP_EMPLOYEES == "Employees"
GROUP_TEAM_MANAGERS == "Team_Managers"
GROUP_HR_MANAGERS == "HR_Managers"
GROUP_HR_ADMINISTRATORS == "HR_Administrators"

ROLE_EMPLOYEE == "employee"
ROLE_MANAGER == "manager"
ROLE_HR_MANAGER == "HR_Manager"
ROLE_HR_ADMIN == "HR_Admin"

MANAGER_GROUPS == {GROUP_TEAM_MANAGERS, GROUP_HR_MANAGERS, GROUP_HR_ADMINISTRATORS}
HR_GROUPS == {GROUP_HR_MANAGERS, GROUP_HR_ADMINISTRATORS}
MANAGER_ROLES == {ROLE_MANAGER, ROLE_HR_MANAGER, ROLE_HR_ADMIN}
HR_ROLES == {ROLE_HR_MANAGER, ROLE_HR_ADMIN}

(* A group claim of the token is the string "/" * slashes ++ name.         *)
Group(k, s) == [slashes |-> k, name |-> s]
GroupIs(g, s) == g.slashes = 0 /\ g.name = s
lstrip(g) == g.name

(* ------------------------- app/core/security.py ------------------------ *)
GROUP_TO_ROLE_MAPPING ==
    [s \in {"HR_Administrators", "HR_Managers", "Team_Managers", "Employees"} |->
        CASE s = "HR_Administrators" -> "HR_Admin"
          [] s = "HR_Managers" -> "HR_Manager"
          [] s = "Team_Managers" -> "manager"
          [] s = "Employees" -> "employee"]

(* map_groups_to_roles without group.lstrip("/").                          *)
map_groups_to_roles_no_lstrip(groups) ==
    { GROUP_TO_ROLE_MAPPING[g.name] :
        g \in { h \in groups : h.slashes = 0 /\ h.name \in DOMAIN GROUP_TO_ROLE_MAPPING } }

map_groups_to_roles(groups) ==
    { GROUP_TO_ROLE_MAPPING[lstrip(g)] :
        g \in { h \in groups : lstrip(h) \in DOMAIN GROUP_TO_ROLE_MAPPING } }

(* The principals that send requests: token subject, e-mail claim, groups. *)
Users == {"hr", "mgr", "emp"}

TokenGroups(u) ==
    CASE u = "hr" -> {Group(0, GROUP_EMPLOYEES), Group(0, GROUP_HR_MANAGERS)}
      [] u = "mgr" -> {Group(0, GROUP_EMPLOYEES), Group(0, GROUP_TEAM_MANAGERS)}
      [] u = "emp" -> {Group(0, GROUP_EMPLOYEES)}

(* decode_token: the TokenData of a token with the given subject and       *)
(* groups claim; roles are mapped from the groups.                         *)
decode_token(sub, groups) ==
    [groups |-> groups, sub |-> sub, email |-> sub,
     roles |-> map_groups_to_roles(groups)]

TokenData(u) ==
    [groups |-> TokenGroups(u), sub |-> u, email |-> u,
     roles |-> map_groups_to_roles(TokenGroups(u))]

HasGroup(user, names) == \E g \in user.groups : \E s \in names : GroupIs(g, s)

is_employee(user) ==
    HasGroup(user, {GROUP_EMPLOYEES}) \/ ROLE_EMPLOYEE \in user.roles

(* is_manager that knows the team manager only.                            *)
is_manager_team_only(user) ==
    HasGroup(user, {GROUP_TEAM_MANAGERS}) \/ ROLE_MANAGER \in user.roles

is_manager(user) ==
    HasGroup(user, MANAGER_GROUPS) \/ (MANAGER_ROLES \cap user.roles) # {}

is_hr(user) ==
    HasGroup(user, HR_GROUPS) \/ (HR_ROLES \cap user.roles) # {}

is_team_manager(user) ==
    HasGroup(user, {GROUP_TEAM_MANAGERS}) \/ ROLE_MANAGER \in user.roles

(* ------------------- app/services/employee_service.py ------------------ *)
(* The Employee Directory: the employee id behind each e-mail and the      *)
(* manager each employee reports to (0: nobody).                           *)
Employees == {1, 2, 3}
DirectoryByEmail == [e \in {"hr", "mgr", "emp"} |->
                        CASE e = "hr" -> 1 [] e = "mgr" -> 2 [] e = "emp" -> 3]
DirectoryManagerId == [e \in Employees |-> CASE e = 1 -> 0 [] e = 2 -> 1 [] e = 3 -> 2]

(* up: the directory answered 200 to this call; otherwise the call ended   *)
(* in a connection error, a timeout or another status and returns None.    *)
get_employee_by_email(email, up) ==
    IF up /\ email \in DOMAIN DirectoryByEmail
    THEN Some(DirectoryByEmail[email]) ELSE None

(* verify_employee_exists for an id that is not in _employee_cache; the    *)
(* answers it gives from the cache are among those of up in BOOLEAN.       *)
verify_employee_exists(employee_id, up) == up /\ employee_id \in Employees

list_team_members(manager_id, up) ==
    IF up THEN {e \in Employees : DirectoryManagerId[e] = manager_id} ELSE {}

(* ------------------------- permissions (cont.) ------------------------- *)
(* The role gates: the status of the HTTPException they raise, 200 when    *)
(* they return the user.                                                   *)
require_employee(user) == IF ~is_employee(user) THEN 403 ELSE 200
require_manager(user) == IF ~is_manager(user) THEN 403 ELSE 200
require_hr(user) == IF ~is_hr(user) THEN 403 ELSE 200

(* can_access_leave without its team manager branch.                       *)
can_access_leave_no_team_manager(user, leave_employee_id, applicant_employee_id) ==
    IF is_hr(user) THEN TRUE
    ELSE IF leave_employee_id = applicant_employee_id THEN TRUE
    ELSE FALSE

can_access_leave(user, leave_employee_id, applicant_employee_id) ==
    IF is_hr(user) THEN TRUE
    ELSE IF leave_employee_id = applicant_employee_id THEN TRUE
    ELSE IF is_team_manager(user) THEN TRUE
    ELSE FALSE

(* can_approve_specific_leave without its self-approval test.              *)
can_approve_specific_leave_no_self_test(user, leave_employee_id, approver_employee_id) ==
    IF is_hr(user) THEN TRUE
    ELSE IF is_team_manager(user) THEN TRUE
    ELSE FALSE

can_approve_specific_leave(user, leave_employee_id, approver_employee_id) ==
    IF leave_employee_id = approver_employee_id THEN FALSE
    ELSE IF is_hr(user) THEN TRUE
    ELSE IF is_team_manager(user) THEN TRUE
    ELSE FALSE

(* ------------------------- app/schemas/leave.py ------------------------ *)
(* Request texts are the strings "" and "X".                               *)
StrLen(s) == IF s = "" THEN 0 ELSE 1

(* LeaveRejectRequest without min_length=1.                                *)
LeaveRejectRequest_no_min_length(body) ==
    /\ body.rejection_reason # None
    /\ StrLen(body.rejection_reason[1]) <= 500

(* LeaveRejectRequest: rejection_reason: str, min_length=1, max_length=500 *)
LeaveRejectRequest(body) ==
    /\ body.rejection_reason # None
    /\ StrLen(body.rejection_reason[1]) >= 1
    /\ StrLen(body.rejection_reason[1]) <= 500

(* LeaveStatusUpdate: status: LeaveStatus, rejection_reason: str | None    *)
(* (max_length=500), approved_by: int | None                               *)
LeaveStatusUpdate(body) ==
    /\ body.status \in LeaveStatus
    /\ body.rejection_reason # None => StrLen(body.rejection_reason[1]) <= 500

(* Python truthiness of an optional int and of an optional str.            *)
TruthyInt(v) == v # None /\ v[1] # 0
TruthyStr(v) == v # None /\ v[1] # ""

(* ------------------------------- inputs -------------------------------- *)
(* A datetime is a number of half days; day d is the datetimes 2d, 2d + 1. *)
Days == 0 .. 2
Today == 1
TicksPerDay == 2
date(t) == t \div TicksPerDay
(* timedelta.days of end - start: whole days, rounded down.                *)
timedelta_days(start, end) == (end - start) \div TicksPerDay
(* The <<start_date, end_date>> of a create request: a period that starts  *)
(* today and ends later the same day, an empty one, an inverted one, and   *)
(* one that starts the day before today.                                   *)
DateInputs == {<<2, 3>>, <<2, 2>>, <<3, 2>>, <<1, 3>>}
LeaveIds == 1 .. MaxLeaves
EmployeeIdInputs == Employees \cup {4}
ReasonInputs == {None, Some(""), Some("X")}
ApprovedByInputs == {None, Some(3)}
NoBody == [rejection_reason |-> None, status |-> "-", approved_by |-> None]

(* Payloads of PUT /leaves/{leave_id}: every target status with no         *)
(* decision data and with both fields filled, an approval that names only  *)
(* the approver, and a rejection with every combination of the two fields. *)
StatusUpdateInputs ==
    {[rejection_reason |-> None, status |-> st, approved_by |-> None] :
        st \in LeaveStatus}
    \cup {[rejection_reason |-> Some("X"), status |-> st, approved_by |-> Some(3)] :
        st \in LeaveStatus}
    \cup {[rejection_reason |-> None, status |-> APPROVED, approved_by |-> Some(3)]}
    \cup {[rejection_reason |-> rr, status |-> REJECTED, approved_by |-> ab] :
        ab \in ApprovedByInputs, rr \in ReasonInputs}

(* ------------------------------- state --------------------------------- *)
VARIABLES
    leaves,     \* the leave table: leaves[id] is the row with primary key id
    inflight,   \* requests that have read their row and not yet committed
    resp,       \* the response of the request that completed last
    decided,    \* decided[id]: number of approve/reject requests on id answered 200
    nreq,       \* number of requests received so far
    cache,      \* cache[e]: the cached leave view of employee e, None if absent
    call        \* the evaluation in progress or last made outside the write
                \* path: a read request, a permission function; None if none

vars == <<leaves, inflight, resp, decided, nreq, cache, call>>

(* The columns of the leave table other than the primary key.              *)
Columns == {"employee_id", "leave_type", "start_date", "end_date", "reason",
            "status", "approved_by", "rejection_reason", "created_at"}

(* The columns of the loaded row that the handler has changed: the only    *)
(* ones the UPDATE of session.commit() sets.                               *)
Dirty(old, new) == {c \in Columns : old[c] # new[c]}

(* The UPDATE that session.commit() flushes for the row with key lid: it   *)
(* sets the changed columns and has no other condition than the key.       *)
Update(lid, old, new) ==
    [lid |-> lid, set |-> [c \in Dirty(old, new) |-> new[c]]]

Flush(row, w) ==
    LET Col(c) == IF c \in DOMAIN w.set THEN w.set[c] ELSE row[c]
    IN [employee_id |-> Col("employee_id"),
        rejection_reason |-> Col("rejection_reason"),
        status |-> Col("status"), approved_by |-> Col("approved_by"),
        leave_type |-> Col("leave_type"),
        start_date |-> Col("start_date"), end_date |-> Col("end_date"),
        reason |-> Col("reason"), created_at |-> Col("created_at")]

HTTPException(code, emp) == [code |-> code, emp |-> emp, event |-> None]
Proceed(emp, w) == [w |-> w, code |-> 200, emp |-> emp, event |-> None]

(* The response of a request, with the request it answers; event is the    *)
(* value publish_event returned to the handler, None when the handler made *)
(* no publish attempt.                                                     *)
Response(op, u, lid, body, out) ==
    [user |-> u, body |-> body, lid |-> lid, code |-> out.code,
     emp |-> out.emp, event |-> out.event, op |-> op]

(* --------------------------- app/core/kafka.py ------------------------- *)
(* What a publish attempt meets: the event is queued, KAFKA_ENABLED is     *)
(* false, get_producer() returns None, or produce() raises.                *)
KafkaInputs == {"queued", "disabled", "no_producer", "KafkaException"}

publish_event(kafka) == kafka = "queued"

(* try: await publish_event("leave-events", event)                         *)
(* except Exception: logger.warning(...)                                   *)
(* after the commit: the handler goes on to its return statement whatever  *)
(* the attempt gave.                                                       *)
AfterPublish_propagating(out, kafka) ==
    IF publish_event(kafka) THEN [out EXCEPT !.event = Some(TRUE)]
    ELSE [out EXCEPT !.code = 500, !.event = Some(FALSE)]

AfterPublish(out, kafka) == [out EXCEPT !.event = Some(publish_event(kafka))]

Init ==
    /\ leaves = <<>>
    /\ inflight = {}
    /\ resp = Response("-", "-", 0, NoBody, HTTPException(0, None))
    /\ decided = [l \in LeaveIds |-> 0]
    /\ nreq = 0
    /\ cache = [e \in Employees |-> None]
    /\ call = None

(* A request that reads a row: it either ends in an error response at once *)
(* or has passed every check and waits for its commit.  Two requests that  *)
(* are equal in every respect are not kept in flight together: the commit  *)
(* of the second one would write what the first one wrote.                 *)
Receive(op, u, lid, body, out) ==
    /\ nreq < MaxRequests
    /\ Cardinality(inflight) < MaxInflight
    /\ nreq' = nreq + 1
    /\ IF out.code = 200
       THEN LET r == [user |-> u, body |-> body, w |-> out.w,
                           emp |-> out.emp, op |-> op]
            IN /\ r \notin inflight
               /\ inflight' = inflight \cup {r}
               /\ UNCHANGED <<leaves, resp, decided, cache, call>>
       ELSE /\ resp' = Response(op, u, lid, body, out)
            /\ UNCHANGED <<leaves, inflight, decided, cache, call>>

(* ------------------------ app/api/routes/leaves.py --------------------- *)
(* The table model app/models/leave.py declares the columns a create does  *)
(* not set; both are optional and empty unless set.                        *)
LeaveDefaults == [rejection_reason |-> None, approved_by |-> None]

NewLeave_keeps_status(employee_id, start_date, end_date) ==
    [employee_id |-> employee_id,
     rejection_reason |-> LeaveDefaults.rejection_reason,
     status |-> APPROVED, approved_by |-> LeaveDefaults.approved_by,
     leave_type |-> ANNUAL, start_date |-> start_date, end_date |-> end_date,
     reason |-> None, created_at |-> Today]

NewLeave(employee_id, start_date, end_date) ==
    [employee_id |-> employee_id,
     rejection_reason |-> LeaveDefaults.rejection_reason,
     status |-> PENDING, approved_by |-> LeaveDefaults.approved_by,
     leave_type |-> ANNUAL, start_date |-> start_date, end_date |-> end_date,
     reason |-> None, created_at |-> Today]

Insert_before_validation(op, u, body, out, row) ==
    /\ nreq < MaxRequests
    /\ Len(leaves) < MaxLeaves
    /\ nreq' = nreq + 1
    /\ leaves' = Append(leaves, row)
    /\ resp' = Response(op, u, IF out.code = 201 THEN Len(leaves) + 1 ELSE 0,
                        body, out)
    /\ UNCHANGED <<inflight, decided, cache, call>>

Insert(op, u, body, out, row) ==
    /\ nreq < MaxRequests
    /\ Len(leaves) < MaxLeaves
    /\ nreq' = nreq + 1
    /\ leaves' = IF out.code = 201 THEN Append(leaves, row) ELSE leaves
    /\ resp' = Response(op, u, IF out.code = 201 THEN Len(leaves) + 1 ELSE 0,
                        body, out)
    /\ UNCHANGED <<inflight, decided, cache, call>>

(* POST /leaves/me *)
create_leave_self_service_no_past_check(u, start_date, end_date, up, kafka) ==
    LET current_user == TokenData(u)
        employee == get_employee_by_email(current_user.email, up)
        out == IF ~is_employee(current_user) THEN HTTPException(403, None)
               ELSE IF employee = None THEN HTTPException(404, None)
               ELSE IF start_date >= end_date THEN HTTPException(400, employee)
               ELSE AfterPublish(HTTPException(201, employee), kafka)
    IN Insert("create_leave_self_service", u,
              [start_date |-> start_date, end_date |-> end_date], out,
              NewLeave(IF employee = None THEN 0 ELSE employee[1], start_date, end_date))

(* create_leave_self_service with the event published before the dates    *)
(* are tested.                                                             *)
create_leave_self_service_publishes_first(u, start_date, end_date, up, kafka) ==
    LET current_user == TokenData(u)
        employee == get_employee_by_email(current_user.email, up)
        out == IF ~is_employee(current_user) THEN HTTPException(403, None)
               ELSE IF employee = None THEN HTTPException(404, None)
               ELSE IF start_date >= end_date
                    THEN AfterPublish(HTTPException(400, employee), kafka)
               ELSE IF date(start_date) < Today THEN HTTPException(400, employee)
               ELSE AfterPublish(HTTPException(201, employee), kafka)
    IN Insert("create_leave_self_service", u,
              [start_date |-> start_date, end_date |-> end_date], out,
              NewLeave(IF employee = None THEN 0 ELSE employee[1], start_date, end_date))

create_leave_self_service(u, start_date, end_date, up, kafka) ==
    LET current_user == TokenData(u)
        employee == get_employee_by_email(current_user.email, up)
        out == IF ~is_employee(current_user) THEN HTTPException(403, None)
               ELSE IF employee = None THEN HTTPException(404, None)
               ELSE IF start_date >= end_date THEN HTTPException(400, employee)
               ELSE IF date(start_date) < Today THEN HTTPException(400, employee)
               ELSE AfterPublish(HTTPException(201, employee), kafka)
    IN Insert("create_leave_self_service", u,
              [start_date |-> start_date, end_date |-> end_date], out,
              NewLeave(IF employee = None THEN 0 ELSE employee[1], start_date, end_date))

(* create_leave without its test of the dates.                             *)
create_leave_no_date_check(u, employee_id, start_date, end_date, up) ==
    LET current_user == TokenData(u)
        out == IF ~is_hr(current_user) THEN HTTPException(403, None)
               ELSE IF ~verify_employee_exists(employee_id, up)
                    THEN HTTPException(404, None)
               ELSE HTTPException(201, None)
    IN Insert("create_leave", u,
              [employee_id |-> employee_id,
               start_date |-> start_date, end_date |-> end_date], out,
              NewLeave(employee_id, start_date, end_date))

(* POST /leaves/ *)
create_leave(u, employee_id, start_date, end_date, up) ==
    LET current_user == TokenData(u)
        out == IF ~is_hr(current_user) THEN HTTPException(403, None)
               ELSE IF start_date >= end_date THEN HTTPException(400, None)
               ELSE IF ~verify_employee_exists(employee_id, up)
                    THEN HTTPException(404, None)
               ELSE HTTPException(201, None)
    IN Insert("create_leave", u,
              [employee_id |-> employee_id,
               start_date |-> start_date, end_date |-> end_date], out,
              NewLeave(employee_id, start_date, end_date))

(* DELETE /leaves/me/{leave_id} *)
cancel_my_leave_no_owner_check(u, leave_id, up) ==
    LET current_user == TokenData(u)
        employee == get_employee_by_email(current_user.email, up)
        out == IF ~is_employee(current_user) THEN HTTPException(403, None)
               ELSE IF employee = None THEN HTTPException(404, None)
               ELSE IF leave_id \notin DOMAIN leaves THEN HTTPException(404, employee)
               ELSE LET leave == leaves[leave_id] IN
                    IF leave.status \in {CANCELLED, REJECTED}
                    THEN HTTPException(400, employee)
                    ELSE Proceed(employee,
                            Update(leave_id, leave, [leave EXCEPT !.status = CANCELLED]))
    IN Receive("cancel_my_leave", u, leave_id, NoBody, out)

cancel_my_leave(u, leave_id, up) ==
    LET current_user == TokenData(u)
        employee == get_employee_by_email(current_user.email, up)
        out == IF ~is_employee(current_user) THEN HTTPException(403, None)
               ELSE IF employee = None THEN HTTPException(404, None)
               ELSE IF leave_id \notin DOMAIN leaves THEN HTTPException(404, employee)
               ELSE LET leave == leaves[leave_id] IN
                    IF leave.employee_id # employee[1] THEN HTTPException(403, employee)
                    ELSE IF leave.status \in {CANCELLED, REJECTED}
                         THEN HTTPException(400, employee)
                    ELSE Proceed(employee,
                            Update(leave_id, leave, [leave EXCEPT !.status = CANCELLED]))
    IN Receive("cancel_my_leave", u, leave_id, NoBody, out)

(* The checks shared by POST /leaves/{leave_id}/approve and /reject, on    *)
(* the row that session.get() returned.                                    *)
Decide(current_user, leave_id, up) ==
    LET approver_employee == get_employee_by_email(current_user.email, up) IN
    IF approver_employee = None THEN HTTPException(404, None)
    ELSE IF leave_id \notin DOMAIN leaves THEN HTTPException(404, approver_employee)
    ELSE LET leave == leaves[leave_id] IN
         IF leave.status # PENDING THEN HTTPException(400, approver_employee)
         ELSE IF ~can_approve_specific_leave(current_user, leave.employee_id,
                                             approver_employee[1])
              THEN HTTPException(403, approver_employee)
         ELSE HTTPException(200, approver_employee)

(* POST /leaves/{leave_id}/approve *)
approve_leave(u, leave_id, up) ==
    LET current_user == TokenData(u)
        checks == Decide(current_user, leave_id, up)
        leave == leaves[leave_id]
        out == IF ~is_manager(current_user) THEN HTTPException(403, None)
               ELSE IF checks.code # 200 THEN checks
               ELSE Proceed(checks.emp,
                       Update(leave_id, leave,
                           [leave EXCEPT !.status = APPROVED,
                                         !.approved_by = Some(checks.emp[1])]))
    IN Receive("approve_leave", u, leave_id, NoBody, out)

(* POST /leaves/{leave_id}/reject *)
reject_leave_wrong_column(u, leave_id, rejection_reason, up) ==
    LET current_user == TokenData(u)
        request == [NoBody EXCEPT !.rejection_reason = rejection_reason]
        checks == Decide(current_user, leave_id, up)
        leave == leaves[leave_id]
        out == IF ~is_manager(current_user) THEN HTTPException(403, None)
               ELSE IF ~LeaveRejectRequest(request) THEN HTTPException(422, None)
               ELSE IF checks.code # 200 THEN checks
               ELSE Proceed(checks.emp,
                       Update(leave_id, leave,
                           [leave EXCEPT !.status = REJECTED,
                                         !.approved_by = Some(checks.emp[1]),
                                         !.reason = request.rejection_reason]))
    IN Receive("reject_leave", u, leave_id, request, out)

reject_leave(u, leave_id, rejection_reason, up) ==
    LET current_user == TokenData(u)
        request == [NoBody EXCEPT !.rejection_reason = rejection_reason]
        checks == Decide(current_user, leave_id, up)
        leave == leaves[leave_id]
        out == IF ~is_manager(current_user) THEN HTTPException(403, None)
               ELSE IF ~LeaveRejectRequest(request) THEN HTTPException(422, None)
               ELSE IF checks.code # 200 THEN checks
               ELSE Proceed(checks.emp,
                       Update(leave_id, leave,
                           [leave EXCEPT !.status = REJECTED,
                                         !.approved_by = Some(checks.emp[1]),
                                         !.rejection_reason = request.rejection_reason]))
    IN Receive("reject_leave", u, leave_id, request, out)

(* PUT /leaves/{leave_id} *)
update_leave_status(u, leave_id, status_update) ==
    LET current_user == TokenData(u)
        out == IF ~is_hr(current_user) THEN HTTPException(403, None)
               ELSE IF ~LeaveStatusUpdate(status_update) THEN HTTPException(422, None)
               ELSE IF leave_id \notin DOMAIN leaves THEN HTTPException(404, None)
               ELSE LET leave == leaves[leave_id] IN
                    IF leave.status # PENDING /\ status_update.status # CANCELLED
                    THEN HTTPException(400, None)
                    ELSE IF status_update.status = APPROVED
                            /\ ~TruthyInt(status_update.approved_by)
                    THEN HTTPException(400, None)
                    ELSE IF status_update.status = REJECTED
                            /\ ~TruthyStr(status_update.rejection_reason)
                    THEN HTTPException(400, None)
                    ELSE Proceed(None,
                            Update(leave_id, leave,
                                [leave EXCEPT
                                   !.status = status_update.status,
                                   !.approved_by = status_update.approved_by,
                                   !.rejection_reason = status_update.rejection_reason]))
    IN Receive("update_leave_status", u, leave_id, status_update, out)

(* DELETE /leaves/{leave_id} *)
cancel_leave(u, leave_id) ==
    LET current_user == TokenData(u)
        out == IF ~is_hr(current_user) THEN HTTPException(403, None)
               ELSE IF leave_id \notin DOMAIN leaves THEN HTTPException(404, None)
               ELSE LET leave == leaves[leave_id] IN
                    IF leave.status \in {CANCELLED, REJECTED} THEN HTTPException(400, None)
                    ELSE Proceed(None,
                            Update(leave_id, leave, [leave EXCEPT !.status = CANCELLED]))
    IN Receive("cancel_leave", u, leave_id, NoBody, out)

(* session.commit() of a request that passed its checks, and the 200       *)
(* response that follows it.                                               *)
session_commit_deleting(r, kafka) ==
    /\ r \in inflight
    /\ inflight' = inflight \ {r}
    /\ leaves' = IF r.op \in {"cancel_my_leave", "cancel_leave"}
                 THEN SubSeq(leaves, 1, r.w.lid - 1)
                 ELSE [leaves EXCEPT ![r.w.lid] = Flush(@, r.w)]
    /\ resp' = Response(r.op, r.user, r.w.lid, r.body,
                        IF r.op \in {"cancel_my_leave", "approve_leave", "reject_leave"}
                        THEN AfterPublish(HTTPException(200, r.emp), kafka)
                        ELSE HTTPException(200, r.emp))
    /\ decided' = IF r.op \in {"approve_leave", "reject_leave"}
                  THEN [decided EXCEPT ![r.w.lid] = @ + 1] ELSE decided
    /\ UNCHANGED <<nreq, cache, call>>

session_commit(r, kafka) ==
    /\ r \in inflight
    /\ inflight' = inflight \ {r}
    /\ leaves' = [leaves EXCEPT ![r.w.lid] = Flush(@, r.w)]
    /\ resp' = Response(r.op, r.user, r.w.lid, r.body,
                        IF r.op \in {"cancel_my_leave", "approve_leave", "reject_leave"}
                        THEN AfterPublish(HTTPException(200, r.emp), kafka)
                        ELSE HTTPException(200, r.emp))
    /\ decided' = IF r.op \in {"approve_leave", "reject_leave"}
                  THEN [decided EXCEPT ![r.w.lid] = @ + 1] ELSE decided
    /\ UNCHANGED <<nreq, cache, call>>

Next ==
    \/ \E u \in Users, d \in DateInputs, up \in BOOLEAN, kafka \in KafkaInputs :
          create_leave_self_service(u, d[1], d[2], up, kafka)
    \/ \E u \in Users, id \in EmployeeIdInputs, d \in DateInputs, up \in BOOLEAN :
          create_leave(u, id, d[1], d[2], up)
    \/ \E u \in Users, l \in LeaveIds, up \in BOOLEAN : cancel_my_leave(u, l, up)
    \/ \E u \in Users, l \in LeaveIds, up \in BOOLEAN : approve_leave(u, l, up)
    \/ \E u \in Users, l \in LeaveIds, rr \in ReasonInputs, up \in BOOLEAN :
          reject_leave(u, l, rr, up)
    \/ \E u \in Users, l \in LeaveIds, status_update \in StatusUpdateInputs :
          update_leave_status(u, l, status_update)
    \/ \E u \in Users, l \in LeaveIds : cancel_leave(u, l)
    \/ \E r \in inflight, kafka \in KafkaInputs : session_commit(r, kafka)

Spec == Init /\ [][Next]_vars

(* --------------------------- app/core/cache.py ------------------------- *)
(* The leave records of an employee, as a reader of the table sees them.   *)
EmployeeLeaves(employee_id) ==
    {<<l, leaves[l].status>> : l \in {k \in DOMAIN leaves :
                                        leaves[k].employee_id = employee_id}}

cache_employee_leaves(employee_id, leaves_data) ==
    /\ cache' = [cache EXCEPT ![employee_id] = Some(leaves_data)]
    /\ UNCHANGED <<leaves, inflight, resp, decided, nreq, call>>

get_employee_leaves(employee_id) == cache[employee_id]

(* The entry of an employee reaches its time to live.                      *)
set_to_cache_expires(employee_id) ==
    /\ cache[employee_id] # None
    /\ cache' = [cache EXCEPT ![employee_id] = None]
    /\ UNCHANGED <<leaves, inflight, resp, decided, nreq, call>>

(* The service together with a component that stores the view it has read  *)
(* from the table under the key of the employee.                           *)
NextCache ==
    \/ Next
    \/ \E e \in Employees :
          /\ cache[e] = None
          /\ cache_employee_leaves(e, EmployeeLeaves(e))
    \/ \E e \in Employees : set_to_cache_expires(e)

SpecCache == Init /\ [][NextCache]_vars

(* ------------------ app/api/routes/leaves.py: reads -------------------- *)
(* LeaveStatus(value) and LeaveType(value) raise ValueError for a value    *)
(* outside the enumeration.                                                *)
StatusFilterInputs == {None, Some(PENDING), Some("bogus")}
LeaveTypeFilterInputs == {None, Some(ANNUAL), Some("bogus")}
OffsetInputs == {0, 1}

(* (leave.end_date - leave.start_date).days + 1 *)
days_count(leave) == timedelta_days(leave.start_date, leave.end_date) + 1

(* What a client is given of the row with key id.                          *)
LeavePublic(id) ==
    [employee_id |-> leaves[id].employee_id,
     rejection_reason |-> leaves[id].rejection_reason,
     status |-> leaves[id].status, approved_by |-> leaves[id].approved_by,
     id |-> id]

LeavePublicEnriched(id) ==
    [employee_id |-> leaves[id].employee_id,
     rejection_reason |-> leaves[id].rejection_reason,
     status |-> leaves[id].status, approved_by |-> leaves[id].approved_by,
     id |-> id, days_count |-> days_count(leaves[id])]

(* select(Leave).where(...): the keys of the rows that satisfy the query.  *)
Select(employee_ids, status, leave_type) ==
    {l \in DOMAIN leaves :
        /\ leaves[l].employee_id \in employee_ids
        /\ status # None => leaves[l].status = status[1]
        /\ leave_type # None => leaves[l].leave_type = leave_type[1]}

Truthy(v) == v # None /\ v[1] # ""

(* The handlers that have a query parameter named status read the status   *)
(* code of every HTTPException they raise as an attribute of that          *)
(* parameter (a str or None), not of fastapi.status: the attribute lookup  *)
(* raises AttributeError and the request ends with 500.                    *)
ShadowedStatus(code) == 500

Raise(code) == [code |-> code, ids |-> {}]
Rows(ids) == [code |-> 200, ids |-> ids]

(* The status and leave_type filters of a list request, applied to a       *)
(* query over the leaves of employee_ids.                                  *)
Filtered(employee_ids, status, leave_type) ==
    IF Truthy(status) /\ status[1] \notin LeaveStatus
    THEN Raise(ShadowedStatus(400))
    ELSE IF Truthy(leave_type) /\ leave_type[1] # ANNUAL
    THEN Raise(ShadowedStatus(400))
    ELSE Rows(Select(employee_ids,
                     IF Truthy(status) THEN status ELSE None,
                     IF Truthy(leave_type) THEN leave_type ELSE None))

(* GET /leaves/me *)
get_my_leaves(u, status, leave_type, up) ==
    LET current_user == TokenData(u)
        employee == get_employee_by_email(current_user.email, up)
    IN IF require_employee(current_user) # 200 THEN Raise(403)
       ELSE IF employee = None THEN Raise(ShadowedStatus(404))
       ELSE Filtered({employee[1]}, status, leave_type)

(* get_pending_leaves without the restriction to the team of the manager.  *)
get_pending_leaves_no_team_filter(u, up, up2) ==
    LET current_user == TokenData(u)
        employee == get_employee_by_email(current_user.email, up)
    IN IF require_manager(current_user) # 200 THEN Raise(403)
       ELSE IF employee = None THEN Raise(404)
       ELSE Rows(Select(Employees, Some(PENDING), None))

(* GET /leaves/pending; up2: the outcome of the call of list_team_members. *)
get_pending_leaves(u, up, up2) ==
    LET current_user == TokenData(u)
        employee == get_employee_by_email(current_user.email, up)
    IN IF require_manager(current_user) # 200 THEN Raise(403)
       ELSE IF employee = None THEN Raise(404)
       ELSE IF ~is_hr(current_user)
            THEN LET team_member_ids == list_team_members(employee[1], up2)
                 IN IF team_member_ids = {} THEN Rows({})
                    ELSE Rows(Select(team_member_ids, Some(PENDING), None))
            ELSE Rows(Select(Employees, Some(PENDING), None))

(* GET /leaves/all *)
list_all_leaves(u, status, leave_type) ==
    LET current_user == TokenData(u)
    IN IF require_hr(current_user) # 200 THEN Raise(403)
       ELSE Filtered(Employees, status, leave_type)

(* GET /leaves/ *)
list_leaves(u, status, up, up2) ==
    LET current_user == TokenData(u)
        employee == get_employee_by_email(current_user.email, up)
    IN IF employee = None THEN Raise(ShadowedStatus(404))
       ELSE Filtered(IF is_hr(current_user) THEN Employees
                     ELSE IF is_manager(current_user)
                          THEN list_team_members(employee[1], up2) \cup {employee[1]}
                          ELSE {employee[1]},
                     status, None)

(* get_leave without the call of can_access_leave.                         *)
get_leave_no_access_check(u, leave_id, up) ==
    LET current_user == TokenData(u)
        employee == get_employee_by_email(current_user.email, up)
    IN IF employee = None THEN Raise(404)
       ELSE IF leave_id \notin DOMAIN leaves THEN Raise(404)
       ELSE Rows({leave_id})

(* GET /leaves/{leave_id} *)
get_leave(u, leave_id, up) ==
    LET current_user == TokenData(u)
        employee == get_employee_by_email(current_user.email, up)
    IN IF employee = None THEN Raise(404)
       ELSE IF leave_id \notin DOMAIN leaves THEN Raise(404)
       ELSE IF ~can_access_leave(current_user, leaves[leave_id].employee_id,
                                 employee[1])
            THEN Raise(403)
       ELSE Rows({leave_id})

(* GET /leaves/employee/{employee_id}; up2: the outcome of the call of     *)
(* verify_employee_exists.                                                 *)
get_employee_leaves_route(u, employee_id, status, up, up2) ==
    LET current_user == TokenData(u)
        current_employee == get_employee_by_email(current_user.email, up)
    IN IF current_employee = None THEN Raise(ShadowedStatus(404))
       ELSE IF ~can_access_leave(current_user, employee_id, current_employee[1])
            THEN Raise(ShadowedStatus(403))
       ELSE IF ~verify_employee_exists(employee_id, up2)
            THEN Raise(ShadowedStatus(404))
       ELSE Filtered({employee_id}, status, None)

(* The response of a read request.  The query of a list has no ORDER BY:   *)
(* the rows that .offset(offset) skips are any offset rows of the result.  *)
Read(fn, u, args, offset, enriched, out) ==
    \E skipped \in SUBSET out.ids :
        /\ Cardinality(skipped) =
              IF offset < Cardinality(out.ids) THEN offset ELSE Cardinality(out.ids)
        /\ call' = [user |-> u, code |-> out.code, fn |-> fn, args |-> args,
                    offset |-> offset,
                    rows |-> IF enriched
                             THEN {LeavePublicEnriched(l) : l \in out.ids \ skipped}
                             ELSE {LeavePublic(l) : l \in out.ids \ skipped}]
        /\ UNCHANGED <<leaves, inflight, resp, decided, nreq, cache>>

(* The parameters of a read request, with the outcomes up and up2 of the   *)
(* first and the second directory call of its handler.                     *)
Filters(status, leave_type, employee_id, up, up2) ==
    [up |-> up, employee_id |-> employee_id, status |-> status,
     leave_type |-> leave_type, up2 |-> up2]

(* The rows the write endpoints leave behind: a leave of any employee that *)
(* starts today or, created by HR, yesterday; pending, or approved,        *)
(* rejected or cancelled the way the approve, reject and cancel endpoints  *)
(* do it.                                                                  *)
RowInputs ==
    {[NewLeave(e, d[1], d[2]) EXCEPT
         !.status = st,
         !.approved_by = IF st \in {APPROVED, REJECTED}
                         THEN Some(IF e = 1 THEN 2 ELSE 1) ELSE None,
         !.rejection_reason = IF st = REJECTED THEN Some("X") ELSE None] :
      e \in Employees, d \in {<<2, 3>>, <<1, 3>>}, st \in LeaveStatus}

Tables == UNION {[1 .. n -> RowInputs] : n \in 0 .. MaxLeaves}

InitRead ==
    /\ leaves \in Tables
    /\ inflight = {}
    /\ resp = Response("-", "-", 0, NoBody, HTTPException(0, None))
    /\ decided = [l \in LeaveIds |-> 0]
    /\ nreq = 0
    /\ cache = [e \in Employees |-> None]
    /\ call = None

(* One read request is followed to its response.                           *)
ReadRequest ==
    \/ \E u \in Users, st \in StatusFilterInputs, lt \in LeaveTypeFilterInputs,
          up \in BOOLEAN, offset \in OffsetInputs :
          Read("get_my_leaves", u, Filters(st, lt, 0, up, TRUE), offset, TRUE,
               get_my_leaves(u, st, lt, up))
    \/ \E u \in Users, up \in BOOLEAN, up2 \in BOOLEAN, offset \in OffsetInputs :
          Read("get_pending_leaves", u, Filters(None, None, 0, up, up2), offset, TRUE,
               get_pending_leaves(u, up, up2))
    \/ \E u \in Users, st \in StatusFilterInputs, lt \in LeaveTypeFilterInputs,
          offset \in OffsetInputs :
          Read("list_all_leaves", u, Filters(st, lt, 0, TRUE, TRUE), offset, TRUE,
               list_all_leaves(u, st, lt))
    \/ \E u \in Users, st \in StatusFilterInputs, up \in BOOLEAN, up2 \in BOOLEAN,
          offset \in OffsetInputs :
          Read("list_leaves", u, Filters(st, None, 0, up, up2), offset, FALSE,
               list_leaves(u, st, up, up2))
    \/ \E u \in Users, l \in LeaveIds, up \in BOOLEAN :
          Read("get_leave", u, Filters(None, None, 0, up, TRUE), 0, TRUE,
               get_leave(u, l, up))
    \/ \E u \in Users, e \in EmployeeIdInputs, st \in StatusFilterInputs,
          up \in BOOLEAN, up2 \in BOOLEAN, offset \in OffsetInputs :
          Read("get_employee_leaves", u, Filters(st, None, e, up, up2), offset, TRUE,
               get_employee_leaves_route(u, e, st, up, up2))

NextRead == call = None /\ ReadRequest

SpecRead == InitRead /\ [][NextRead]_vars

(* ------------------------ GET /leaves/summary -------------------------- *)
(* The engine and the session of app/api/dependencies.py decide what a     *)
(* statement of a request sees.  The store gives a transaction per row and *)
(* nothing across statements: a statement sees the table as committed when *)
(* it runs.                                                                *)
StatementView == leaves

(* select(func.count(Leave.id)), with or without .where(Leave.status == s) *)
count(where) ==
    Cardinality({l \in DOMAIN StatementView :
                    where = None \/ StatementView[l].status = where[1]})

(* The five statements of the handler, in its order.                       *)
SummaryQueries == <<None, Some(PENDING), Some(APPROVED), Some(REJECTED), Some(CANCELLED)>>

(* schemas/leave.py LeaveSummary, from the five counts                     *)
LeaveSummary(counts) ==
    [total_leaves |-> counts[1], pending_leaves |-> counts[2],
     approved_leaves |-> counts[3], rejected_leaves |-> counts[4],
     cancelled_leaves |-> counts[5]]

(* GET /leaves/summary: the gate of the request; the statements follow.    *)
get_leave_dashboard_summary(u) ==
    /\ call = None
    /\ call' = [user |-> u,
                code |-> IF require_hr(TokenData(u)) # 200 THEN 403 ELSE 0,
                fn |-> "get_leave_dashboard_summary", counts |-> <<>>]
    /\ UNCHANGED <<leaves, inflight, resp, decided, nreq, cache>>

(* session.exec(...).one() of the next statement of the handler; the       *)
(* response follows the fifth.                                             *)
session_exec ==
    /\ call # None
    /\ call.code = 0
    /\ call' = [call EXCEPT
                   !.counts = Append(@, count(SummaryQueries[Len(@) + 1])),
                   !.code = IF Len(call.counts) + 1 = Len(SummaryQueries)
                            THEN 200 ELSE 0]
    /\ UNCHANGED <<leaves, inflight, resp, decided, nreq, cache>>

(* A summary request among the requests of HR that create, approve and     *)
(* cancel leaves.                                                          *)
NextSummary ==
    \/ \E id \in Employees : create_leave("hr", id, 2, 3, TRUE)
    \/ \E l \in LeaveIds : approve_leave("hr", l, TRUE)
    \/ \E l \in LeaveIds : cancel_leave("hr", l)
    \/ \E r \in inflight : session_commit(r, "queued")
    \/ \E u \in Users : get_leave_dashboard_summary(u)
    \/ session_exec

SpecSummary == Init /\ [][NextSummary]_vars

(* ----------------- app/core/kafka.py: KafkaProducer --------------------- *)
(* The class attributes _instance, _lock and _started, and the threads     *)
(* that call publish_event, start() and stop(), each at a line of the      *)
(* method it runs.  A Producer is known by the number of its construction; *)
(* 0 stands for None.  lifecycle remembers whether stop() has cleared the  *)
(* producer and whether start() was called after that.  KAFKA_ENABLED is   *)
(* true: when it is false no method touches the class attributes.          *)
MaxProducers == 2
Threads == {"t1", "t2"}

InitProducer ==
    /\ leaves = <<>>
    /\ inflight = {}
    /\ resp = Response("-", "-", 0, NoBody, HTTPException(0, None))
    /\ decided = [l \in LeaveIds |-> 0]
    /\ nreq = 0
    /\ cache = [e \in Employees |-> None]
    /\ call = [op |-> [t \in Threads |-> "-"],
               _instance |-> 0, _lock |-> None, _started |-> FALSE,
               pc |-> [t \in Threads |-> "idle"],
               got |-> [t \in Threads |-> 0],
               constructed |-> 0, lifecycle |-> "never_stopped"]

Others == UNCHANGED <<leaves, inflight, resp, decided, nreq, cache>>

(* publish_event: producer = KafkaProducer.get_producer()                  *)
publish_event_begins(t) ==
    /\ call.pc[t] = "idle"
    /\ call' = [call EXCEPT !.op[t] = "publish_event", !.pc[t] = "get_producer"]
    /\ Others

(* start(): if not cls._started: producer = cls.get_producer()             *)
start(t) ==
    /\ call.pc[t] = "idle"
    /\ call' = [call EXCEPT
                   !.op[t] = "start",
                   !.pc[t] = IF call._started THEN "idle" ELSE "get_producer",
                   !.lifecycle = IF @ = "stopped" THEN "started_again" ELSE @]
    /\ Others

(* get_producer: if cls._instance is None                                  *)
get_producer(t) ==
    /\ call.pc[t] = "get_producer"
    /\ call' = [call EXCEPT !.pc[t] = IF call._instance = 0 THEN "acquire"
                                      ELSE "return"]
    /\ Others

(* with cls._lock:                                                         *)
acquire(t) ==
    /\ call.pc[t] \in {"acquire", "stop_acquire"}
    /\ call._lock = None
    /\ call' = [call EXCEPT !._lock = Some(t),
                            !.pc[t] = IF @ = "acquire" THEN "recheck"
                                      ELSE "stop_clear"]
    /\ Others

(* if cls._instance is None: cls._instance = Producer(config); the lock is *)
(* released at the end of the block.                                       *)
recheck(t) ==
    /\ call.pc[t] = "recheck"
    /\ call._instance = 0 => call.constructed < MaxProducers
    /\ call' = [call EXCEPT
                   !._instance = IF @ = 0 THEN call.constructed + 1 ELSE @,
                   !.constructed = IF call._instance = 0 THEN @ + 1 ELSE @,
                   !._lock = None, !.pc[t] = "return"]
    /\ Others

(* return cls._instance, and what the caller does with it: start() sets    *)
(* _started if it got a producer.                                          *)
return(t) ==
    /\ call.pc[t] = "return"
    /\ call' = [call EXCEPT
                   !.got[t] = call._instance,
                   !._started = IF call.op[t] = "start" /\ call._instance # 0
                                THEN TRUE ELSE @,
                   !.pc[t] = "idle"]
    /\ Others

(* stop(): if cls._started and cls._instance                               *)
stop(t) ==
    /\ call.pc[t] = "idle"
    /\ call' = [call EXCEPT
                   !.op[t] = "stop",
                   !.pc[t] = IF call._started /\ call._instance # 0
                             THEN "stop_acquire" ELSE "idle"]
    /\ Others

(* if cls._instance: flush, cls._instance = None, cls._started = False     *)
stop_clear(t) ==
    /\ call.pc[t] = "stop_clear"
    /\ call' = [call EXCEPT
                   !._instance = 0,
                   !._started = IF call._instance # 0 THEN FALSE ELSE @,
                   !.lifecycle = IF call._instance # 0 THEN "stopped" ELSE @,
                   !._lock = None, !.pc[t] = "idle"]
    /\ Others

NextProducer ==
    \/ \E t \in Threads : publish_event_begins(t)
    \/ \E t \in Threads : start(t)
    \/ \E t \in Threads : get_producer(t)
    \/ \E t \in Threads : acquire(t)
    \/ \E t \in Threads : recheck(t)
    \/ \E t \in Threads : return(t)
    \/ \E t \in Threads : stop(t)
    \/ \E t \in Threads : stop_clear(t)

SpecProducer == InitProducer /\ [][NextProducer]_vars

(* -------------- services/employee_service.py: _employee_cache ---------- *)
(* The process keeps what verify_employee_exists has answered for an id,   *)
(* True or False, and answers from it from then on; nothing in the service *)
(* removes an entry.  The directory becomes unreachable and reachable      *)
(* again at any time.                                                      *)
InitDirectory ==
    /\ leaves = <<>>
    /\ inflight = {}
    /\ resp = Response("-", "-", 0, NoBody, HTTPException(0, None))
    /\ decided = [l \in LeaveIds |-> 0]
    /\ nreq = 0
    /\ cache = [e \in Employees |-> None]
    /\ call = [employee_id |-> 0, fn |-> "-", result |-> FALSE,
               reachable |-> TRUE,
               _employee_cache |-> [e \in EmployeeIdInputs |-> None]]

(* The Employee Service goes down or comes back.                           *)
DirectoryChanges(up) ==
    /\ call' = [call EXCEPT !.reachable = up, !.fn = "-"]
    /\ UNCHANGED <<leaves, inflight, resp, decided, nreq, cache>>

(* verify_employee_exists(employee_id) of employee_service.py, with its    *)
(* cache: _verify_via_employee_service turns every failure into False, and *)
(* the result is stored whatever it is.                                    *)
verify_employee_exists_cached(employee_id) ==
    LET cached == call._employee_cache[employee_id]
        result == IF cached # None THEN cached[1]
                  ELSE verify_employee_exists(employee_id, call.reachable)
    IN /\ call' = [call EXCEPT !.employee_id = employee_id,
                               !.fn = "verify_employee_exists",
                               !.result = result,
                               !._employee_cache[employee_id] = Some(result)]
       /\ UNCHANGED <<leaves, inflight, resp, decided, nreq, cache>>

NextDirectory ==
    \/ \E up \in BOOLEAN : DirectoryChanges(up)
    \/ \E e \in EmployeeIdInputs : verify_employee_exists_cached(e)

SpecDirectory == InitDirectory /\ [][NextDirectory]_vars

(* ------------------ app/core/permissions.py: audit log ----------------- *)
(* logger.info("Authorization ALLOWED/DENIED: user=..., action=...,        *)
(* resource=..., groups=...")                                              *)
log_authorization_check(user, action, leave_id, allowed) ==
    [user |-> user.email, action |-> action, allowed |-> allowed,
     resource |-> <<"leave", leave_id>>]

(* The entries a handler has appended when it answers with code: approve,  *)
(* reject and the self-service cancel log after their own test of the      *)
(* caller fails and before they return; the gates require_employee,        *)
(* require_manager and require_hr log nothing, nor do cancel_leave,        *)
(* update_leave_status and the creates.                                    *)
AuditEntries(op, u, leave_id, code) ==
    LET current_user == TokenData(u)
        action == IF op = "cancel_my_leave" THEN "cancel_leave" ELSE op
        gate == IF op = "cancel_my_leave" THEN require_employee(current_user)
                ELSE require_manager(current_user)
    IN IF op \notin {"approve_leave", "reject_leave", "cancel_my_leave"}
            \/ gate # 200 \/ code \notin {200, 403}
       THEN <<>>
       ELSE <<log_authorization_check(current_user, action, leave_id, code = 200)>>

(* -------------------------- app/core/events.py ------------------------- *)
LEAVE_REQUESTED == "leave.requested"
LEAVE_CANCELLED == "leave.cancelled"
LEAVE_APPROVED == "leave.approved"
LEAVE_REJECTED == "leave.rejected"

(* EventMetadata(...): a pydantic model keeps the fields it declares       *)
(* and ignores any other keyword; actor_user_id is None unless given.      *)
EventMetadata(kwargs) ==
    [actor_user_id |-> IF "actor_user_id" \in DOMAIN kwargs
                       THEN Some(kwargs.actor_user_id) ELSE None]

(* The envelope a handler builds after its commit.                         *)
EventEnvelope(op, current_user, leave_id) ==
    [event_type |-> CASE op = "create_leave_self_service" -> LEAVE_REQUESTED
                      [] op = "cancel_my_leave" -> LEAVE_CANCELLED
                      [] op = "approve_leave" -> LEAVE_APPROVED
                      [] OTHER -> LEAVE_REJECTED,
     data |-> [employee_id |-> leaves[leave_id].employee_id, leave_id |-> leave_id],
     metadata |-> EventMetadata([user_id |-> current_user.sub])]

(* ------------------- app/core/cache.py: the helpers -------------------- *)
(* What Redis holds under the key of a call: nothing, a string that is a   *)
(* JSON document, a string that is not, a string that is an integer, or a  *)
(* set.                                                                    *)
StoredInputs == {"missing", "json", "garbage", "int", "set"}

(* The outcome of a call of the client or of json: a value, or an          *)
(* exception.                                                              *)
Ok(v) == [value |-> v, raised |-> FALSE]
Raises(e) == [value |-> e, raised |-> TRUE]

(* except Exception as e: log and return the failure value                 *)
except_Exception(r, failure) == IF r.raised THEN Ok(failure) ELSE r

(* redis-py: every command raises ConnectionError when the server cannot   *)
(* be reached and ResponseError when the key holds a value of another      *)
(* type.                                                                   *)
client(c, types, v) ==
    IF ~c.reachable THEN Raises("ConnectionError")
    ELSE IF c.stored \notin types THEN Raises("ResponseError")
    ELSE Ok(v)

Strings == {"missing", "json", "garbage", "int"}
Counters == {"missing", "int"}
Sets == {"missing", "set"}

json_loads(data) == IF data = "garbage" THEN Raises("JSONDecodeError") ELSE Ok(Some(data))

get_from_cache(c) ==
    LET data == client(c, Strings, c.stored)
    IN except_Exception(
          IF data.raised THEN data
          ELSE IF data.value = "missing" THEN Ok(None)
          ELSE json_loads(data.value),
          None)

(* json.dumps raises TypeError for a value json_serializer does not know.  *)
set_to_cache(c, serializable) ==
    except_Exception(
       IF ~serializable THEN Raises("TypeError")
       ELSE client(c, StoredInputs, TRUE),
       FALSE)

delete_from_cache(c) == except_Exception(client(c, StoredInputs, TRUE), FALSE)
clear_cache_pattern(c) == except_Exception(client(c, StoredInputs, TRUE), FALSE)
increment_counter(c) == except_Exception(client(c, Counters, 1), 0)
decrement_counter(c) == except_Exception(client(c, Counters, 1), 0)
add_to_set(c) == except_Exception(client(c, Sets, 1), 0)
remove_from_set(c) ==
    except_Exception(client(c, Sets, IF c.stored = "set" THEN 1 ELSE 0), 0)
get_set_members(c) ==
    except_Exception(client(c, Sets, IF c.stored = "set" THEN {"1"} ELSE {}), {})
set_count(c) ==
    except_Exception(client(c, Sets, IF c.stored = "set" THEN 1 ELSE 0), 0)

(* The helpers built on them drop what the calls return.                   *)
invalidate_dashboard_metrics(c) == delete_from_cache(c)
invalidate_employee_leaves(c) == Ok(TRUE)
track_on_leave_today(c) == Ok(TRUE)
remove_on_leave_today(c) == Ok(TRUE)

(* What the key holds after a call of a helper.                            *)
StoredAfter(c, fn, r) ==
    IF ~c.reachable \/ r.raised THEN c.stored
    ELSE CASE fn \in {"set_to_cache"} -> IF r.value THEN "json" ELSE c.stored
           [] fn \in {"delete_from_cache", "clear_cache_pattern",
                      "invalidate_dashboard_metrics", "invalidate_employee_leaves",
                      "remove_on_leave_today"} -> "missing"
           [] fn \in {"increment_counter", "decrement_counter"} ->
                 IF c.stored \in Counters THEN "int" ELSE c.stored
           [] fn \in {"add_to_set", "track_on_leave_today"} ->
                 IF c.stored \in Sets THEN "set" ELSE c.stored
           [] OTHER -> c.stored

InitHelpers ==
    /\ leaves = <<>>
    /\ inflight = {}
    /\ resp = Response("-", "-", 0, NoBody, HTTPException(0, None))
    /\ decided = [l \in LeaveIds |-> 0]
    /\ nreq = 0
    /\ cache = [e \in Employees |-> None]
    /\ \E reachable \in BOOLEAN, stored \in StoredInputs :
          call = [fn |-> "-", reachable |-> reachable,
                  value |-> None, raised |-> FALSE,
                  stored |-> stored, before |-> stored]

(* One call of a helper against the Redis of the initial state.            *)
Helper(fn, r) ==
    /\ call.fn = "-"
    /\ call' = [fn |-> fn, reachable |-> call.reachable,
                value |-> r.value, raised |-> r.raised,
                stored |-> StoredAfter(call, fn, r), before |-> call.stored]
    /\ UNCHANGED <<leaves, inflight, resp, decided, nreq, cache>>

NextHelpers ==
    \/ Helper("get_from_cache", get_from_cache(call))
    \/ \E serializable \in BOOLEAN :
          Helper("set_to_cache", set_to_cache(call, serializable))
    \/ Helper("delete_from_cache", delete_from_cache(call))
    \/ Helper("clear_cache_pattern", clear_cache_pattern(call))
    \/ Helper("increment_counter", increment_counter(call))
    \/ Helper("decrement_counter", decrement_counter(call))
    \/ Helper("add_to_set", add_to_set(call))
    \/ Helper("remove_from_set", remove_from_set(call))
    \/ Helper("get_set_members", get_set_members(call))
    \/ Helper("set_count", set_count(call))
    \/ Helper("invalidate_dashboard_metrics", invalidate_dashboard_metrics(call))
    \/ Helper("invalidate_employee_leaves", invalidate_employee_leaves(call))
    \/ Helper("track_on_leave_today", track_on_leave_today(call))
    \/ Helper("remove_on_leave_today", remove_on_leave_today(call))

SpecHelpers == InitHelpers /\ [][NextHelpers]_vars

(* --------------------- create, decide, then fetch ---------------------- *)
(* A leave is created, one approve or reject request follows and is        *)
(* answered, and the leave is fetched.                                     *)
NextRoundTrip ==
    \/ /\ nreq = 0
       /\ \E u \in Users, d \in DateInputs, up \in BOOLEAN, kafka \in KafkaInputs :
             create_leave_self_service(u, d[1], d[2], up, kafka)
    \/ /\ nreq = 0
       /\ \E u \in Users, id \in EmployeeIdInputs, d \in DateInputs, up \in BOOLEAN :
             create_leave(u, id, d[1], d[2], up)
    \/ /\ nreq = 1
       /\ \E u \in Users, l \in LeaveIds, up \in BOOLEAN : approve_leave(u, l, up)
    \/ /\ nreq = 1
       /\ \E u \in Users, l \in LeaveIds, rr \in ReasonInputs, up \in BOOLEAN :
             reject_leave(u, l, rr, up)
    \/ \E r \in inflight, kafka \in KafkaInputs : session_commit(r, kafka)
    \/ /\ nreq = 2
       /\ inflight = {}
       /\ call = None
       /\ \E u \in Users, l \in LeaveIds, up \in BOOLEAN :
             Read("get_leave", u, Filters(None, None, 0, up, TRUE), 0, TRUE,
                  get_leave(u, l, up))

SpecRoundTrip == Init /\ [][NextRoundTrip]_vars

(* ------------------- the permission functions alone -------------------- *)
(* The groups claim of a token: at most MaxGroups of the four group names  *)
(* the service knows and one it does not know, each with or without a      *)
(* leading "/".                                                            *)
MaxGroups == 2
GroupNames == DOMAIN GROUP_TO_ROLE_MAPPING \cup {"Contractors"}
GroupInputs == {Group(k, n) : k \in {0, 1}, n \in GroupNames}
GroupsClaims == {G \in SUBSET GroupInputs : Cardinality(G) <= MaxGroups}

(* The arguments of a call: the groups claim of the caller's token, the    *)
(* employee id on the leave and the employee id of the caller.             *)
PermissionInput(groups, leave_employee_id, applicant_employee_id) ==
    [groups |-> groups, leave_employee_id |-> leave_employee_id,
     applicant_employee_id |-> applicant_employee_id, fn |-> "-", result |-> None]

InitPermissions ==
    /\ leaves = <<>>
    /\ inflight = {}
    /\ resp = Response("-", "-", 0, NoBody, HTTPException(0, None))
    /\ decided = [l \in LeaveIds |-> 0]
    /\ nreq = 0
    /\ cache = [e \in Employees |-> None]
    /\ call \in {PermissionInput(G, o, c) :
                    G \in GroupsClaims, o \in Employees, c \in Employees}

Returns(fn, result) ==
    /\ call.fn = "-"
    /\ call' = [call EXCEPT !.fn = fn, !.result = Some(result)]
    /\ UNCHANGED <<leaves, inflight, resp, decided, nreq, cache>>

CallUser == decode_token("p", call.groups)

NextPermissions ==
    \/ Returns("map_groups_to_roles", map_groups_to_roles(call.groups))
    \/ Returns("require_employee", require_employee(CallUser))
    \/ Returns("is_manager", is_manager(CallUser))
    \/ Returns("is_hr", is_hr(CallUser))
    \/ Returns("require_manager", require_manager(CallUser))
    \/ Returns("require_hr", require_hr(CallUser))
    \/ Returns("can_access_leave",
               can_access_leave(CallUser, call.leave_employee_id,
                                call.applicant_employee_id))

SpecPermissions == InitPermissions /\ [][NextPermissions]_vars

(* ============================ properties =============================== *)
DecisionOps == {"approve_leave", "reject_leave"}

(* The employee id the directory holds for a principal (0: none).          *)
CallerId(u) == IF u \in DOMAIN DirectoryByEmail THEN DirectoryByEmail[u] ELSE 0

(* A step in which a request ends with a response.                         *)
Completed == nreq' - Cardinality(inflight') # nreq - Cardinality(inflight)

(* C1. Once the status of a leave is rejected or cancelled, no operation   *)
(* changes its status again.                                               *)
C1_TerminalStatusIsFinal ==
    [][\A l \in DOMAIN leaves :
          leaves[l].status \in {REJECTED, CANCELLED}
             => leaves'[l].status = leaves[l].status]_vars

(* C2. An approved leave has approved_by different from its owner's        *)
(* employee_id, whichever operation produced the approval.                 *)
C2_ApproverIsNotOwner ==
    \A l \in DOMAIN leaves :
        leaves[l].status = APPROVED => leaves[l].approved_by # Some(leaves[l].employee_id)

(* C3. Of the approve and reject requests that race on one pending leave,  *)
(* exactly one is answered with success: a leave never has two successful  *)
(* decisions.                                                              *)
C3_OneDecisionSucceeds == \A l \in LeaveIds : decided[l] <= 1

(* C4. A team manager who is not HR gets an approve or reject through only *)
(* when the owner of the leave is one of the manager's direct reports.     *)
C4_TeamScopedDecision ==
    (/\ resp.op \in DecisionOps
     /\ resp.code = 200
     /\ is_team_manager(TokenData(resp.user))
     /\ ~is_hr(TokenData(resp.user)))
    => leaves[resp.lid].employee_id \in list_team_members(resp.emp[1], TRUE)

(* C5. Self-approval.  The original statement: an approve or reject on a   *)
(* pending leave by a caller whose employee id is the owner's is answered  *)
(* 403 and changes nothing, whatever the caller's roles.                   *)
SelfDecision ==
    /\ Completed
    /\ resp'.op \in DecisionOps
    /\ resp'.lid \in DOMAIN leaves
    /\ leaves[resp'.lid].status = PENDING
    /\ CallerId(resp'.user) = leaves[resp'.lid].employee_id

C5_SelfDecisionIsForbidden ==
    [][SelfDecision => (resp'.code = 403 /\ leaves' = leaves)]_vars

(* C5 as amended: such a request is always denied and changes nothing; the *)
(* denial is 403 at the role gate and at the authorization check, 422 when *)
(* a reject body has no valid rejection_reason (checked before the handler *)
(* runs), 404 when the caller's employee record cannot be resolved.        *)
C5_SelfDecisionIsDenied ==
    [][/\ \A r \in inflight' \ inflight :
             r.op \in DecisionOps => CallerId(r.user) # leaves[r.w.lid].employee_id
       /\ SelfDecision =>
             /\ leaves' = leaves
             /\ resp'.code =
                  IF ~is_manager(TokenData(resp'.user)) THEN 403
                  ELSE IF resp'.op = "reject_leave"
                          /\ ~TruthyStr(resp'.body.rejection_reason) THEN 422
                  ELSE IF resp'.emp = None THEN 404
                  ELSE 403]_vars

(* An HR principal was refused the approval or rejection of its own        *)
(* pending leave at the authorization check.                               *)
C5_Witness ==
    /\ resp.op \in DecisionOps
    /\ resp.code = 403
    /\ is_hr(TokenData(resp.user))
    /\ resp.lid \in DOMAIN leaves
    /\ resp.emp = Some(leaves[resp.lid].employee_id)
    /\ leaves[resp.lid].status = PENDING

(* C6. An approved leave has approved_by set and rejection_reason null.    *)
C6_ApprovedHasApproverOnly ==
    \A l \in DOMAIN leaves :
        leaves[l].status = APPROVED
           => leaves[l].approved_by # None /\ leaves[l].rejection_reason = None

(* C7. A rejected leave has approved_by set and a non-empty                *)
(* rejection_reason.                                                       *)
C7_RejectedHasApproverAndReason ==
    \A l \in DOMAIN leaves :
        leaves[l].status = REJECTED
           => leaves[l].approved_by # None /\ TruthyStr(leaves[l].rejection_reason)

(* C8. A pending or cancelled leave has neither approved_by nor            *)
(* rejection_reason set.                                                   *)
C8_UndecidedHasNoDecisionData ==
    \A l \in DOMAIN leaves :
        leaves[l].status \in {PENDING, CANCELLED}
           => leaves[l].approved_by = None /\ leaves[l].rejection_reason = None

(* C9. Rejection without a reason.  The original statement: a request to   *)
(* reject a leave (reject endpoint, or legacy update to rejected) that     *)
(* carries no rejection_reason or an empty one ends in a validation error  *)
(* (400 or 422) for every caller and changes nothing.                      *)
IsRejection(op, body) ==
    \/ op = "reject_leave"
    \/ op = "update_leave_status" /\ body.status = REJECTED

ReasonlessRejection ==
    /\ Completed
    /\ resp'.lid \in DOMAIN leaves
    /\ IsRejection(resp'.op, resp'.body)
    /\ ~TruthyStr(resp'.body.rejection_reason)

C9_ReasonlessRejectionIsInvalid ==
    [][ReasonlessRejection => (resp'.code \in {400, 422} /\ leaves' = leaves)]_vars

(* C9 as amended: such a request never succeeds and changes nothing, for   *)
(* every caller; a caller that passes the role gate of the endpoint gets   *)
(* the validation error (422 from the reject endpoint, 400 from the legacy *)
(* update), a caller that does not pass it gets 403.                       *)
C9_ReasonlessRejectionFails ==
    [][/\ \A r \in inflight' \ inflight :
             IsRejection(r.op, r.body) => TruthyStr(r.body.rejection_reason)
       /\ ReasonlessRejection =>
             /\ leaves' = leaves
             /\ resp'.code =
                  IF resp'.op = "reject_leave"
                  THEN (IF is_manager(TokenData(resp'.user)) THEN 422 ELSE 403)
                  ELSE (IF is_hr(TokenData(resp'.user)) THEN 400 ELSE 403)]_vars

(* HR was refused the legacy update of a pending leave to rejected because *)
(* the rejection_reason was missing or empty.                              *)
C9_Witness ==
    /\ resp.op = "update_leave_status"
    /\ resp.body.status = REJECTED
    /\ ~TruthyStr(resp.body.rejection_reason)
    /\ resp.code = 400
    /\ resp.lid \in DOMAIN leaves
    /\ leaves[resp.lid].status = PENDING

(* C10. An approved leave changes status only to cancelled; while it stays *)
(* approved its approved_by does not change.                               *)
C10_ApprovedOnlyToCancelled ==
    [][\A l \in DOMAIN leaves :
          leaves[l].status = APPROVED
             => /\ leaves'[l].status \in {APPROVED, CANCELLED}
                /\ leaves'[l].status = APPROVED
                      => leaves'[l].approved_by = leaves[l].approved_by]_vars

CancelOps == {"cancel_my_leave", "cancel_leave"}
CreateOps == {"create_leave_self_service", "create_leave"}

(* C11. A self-service cancel by a principal whose resolved employee id is *)
(* not the owner's is answered 403 and changes nothing, whatever the roles *)
(* of the principal and the status of the leave; no such request ever      *)
(* reaches its commit.                                                     *)
ForeignCancel ==
    /\ Completed
    /\ resp'.op = "cancel_my_leave"
    /\ resp'.lid \in DOMAIN leaves
    /\ resp'.emp # None
    /\ resp'.emp # Some(leaves[resp'.lid].employee_id)

C11_ForeignCancelIsForbidden ==
    [][/\ \A r \in inflight' \ inflight :
             r.op = "cancel_my_leave" => r.emp = Some(leaves[r.w.lid].employee_id)
       /\ ForeignCancel => (resp'.code = 403 /\ leaves' = leaves)]_vars

(* An HR principal was refused the self-service cancel of a leave of       *)
(* another employee that is already rejected or cancelled.                 *)
C11_Witness ==
    /\ resp.op = "cancel_my_leave"
    /\ resp.code = 403
    /\ is_hr(TokenData(resp.user))
    /\ resp.lid \in DOMAIN leaves
    /\ resp.emp # None
    /\ resp.emp # Some(leaves[resp.lid].employee_id)
    /\ leaves[resp.lid].status \in {REJECTED, CANCELLED}

(* C12. A cancel by the owner or by HR that finds the leave pending or     *)
(* approved is answered with success, and a cancel answered with success   *)
(* moves a pending or approved leave to cancelled: it never succeeds on a  *)
(* leave that is cancelled already.                                        *)
C12_CancelSucceedsOnce ==
    [][(Completed /\ resp'.op \in CancelOps /\ resp'.lid \in DOMAIN leaves) =>
          /\ (/\ leaves[resp'.lid].status \in {PENDING, APPROVED}
              /\ \/ resp'.op = "cancel_leave" /\ is_hr(TokenData(resp'.user))
                 \/ resp'.op = "cancel_my_leave"
                       /\ resp'.emp = Some(leaves[resp'.lid].employee_id))
             => resp'.code = 200
          /\ resp'.code = 200
             => /\ leaves[resp'.lid].status \in {PENDING, APPROVED}
                /\ leaves'[resp'.lid].status = CANCELLED]_vars

(* C13. A publish attempt that fails after the commit of a create,         *)
(* approve, reject or cancel leaves the response a success and the         *)
(* committed change in the table.                                          *)
C13_PublishFailureIsSwallowed ==
    [][(Completed /\ resp'.event = Some(FALSE)) =>
          /\ resp'.code = IF resp'.op \in CreateOps THEN 201 ELSE 200
          /\ resp'.lid \in DOMAIN leaves'
          /\ resp'.op \in CreateOps =>
                /\ resp'.lid \notin DOMAIN leaves
                /\ leaves'[resp'.lid].status = PENDING
          /\ resp'.op = "approve_leave" => leaves'[resp'.lid].status = APPROVED
          /\ resp'.op = "reject_leave" => leaves'[resp'.lid].status = REJECTED
          /\ resp'.op \in CancelOps => leaves'[resp'.lid].status = CANCELLED]_vars

(* An approval was committed and answered with success after              *)
(* publish_event returned False.                                           *)
C13_Witness ==
    /\ resp.event = Some(FALSE)
    /\ resp.op = "approve_leave"
    /\ resp.code = 200
    /\ leaves[resp.lid].status = APPROVED

(* C14. Every request that is answered with success after creating,        *)
(* approving, rejecting or cancelling a leave has made a publish attempt.  *)
IsTransition(op, body) ==
    \/ op \in CreateOps \cup CancelOps \cup DecisionOps
    \/ op = "update_leave_status" /\ body.status \in {APPROVED, REJECTED, CANCELLED}

C14_TransitionPublishes ==
    (resp.code \in {200, 201} /\ IsTransition(resp.op, resp.body))
       => resp.event # None

(* C15. The cached view of an employee is the employee's leaves as they    *)
(* are in the table: no view stored before a transition is served after it.*)
C15_NoStaleView ==
    \A e \in Employees :
        get_employee_leaves(e) # None => get_employee_leaves(e) = Some(EmployeeLeaves(e))

(* C16. A leave record is never removed, and a cancel that is answered     *)
(* with success changes nothing in its row but the status, which becomes   *)
(* cancelled.                                                              *)
C16_LeavesAreNeverRemoved ==
    [][/\ DOMAIN leaves \subseteq DOMAIN leaves'
       /\ (Completed /\ resp'.op \in CancelOps /\ resp'.code = 200) =>
             leaves'[resp'.lid] = [leaves[resp'.lid] EXCEPT !.status = CANCELLED]]_vars

(* HR cancelled a leave and the record is still in the table.              *)
C16_Witness ==
    /\ resp.op = "cancel_leave"
    /\ resp.code = 200
    /\ resp.lid \in DOMAIN leaves
    /\ leaves[resp.lid].status = CANCELLED

(* C17. No step changes the id, employee_id, leave_type, start_date,       *)
(* end_date, reason or created_at of an existing leave.                    *)
ImmutableColumns ==
    {"employee_id", "leave_type", "start_date", "end_date", "reason", "created_at"}

C17_IdentityIsImmutable ==
    [][\A l \in DOMAIN leaves :
          /\ l \in DOMAIN leaves'
          /\ \A c \in ImmutableColumns : leaves'[l][c] = leaves[l][c]]_vars

(* A rejection was committed: the row carries the rejection reason and the *)
(* reason the employee gave is still as it was created.                    *)
C17_Witness ==
    /\ resp.op = "reject_leave"
    /\ resp.code = 200
    /\ leaves[resp.lid].status = REJECTED
    /\ leaves[resp.lid].rejection_reason = Some("X")
    /\ leaves[resp.lid].reason = None

(* C18. A request that ends in an error response leaves the table as it    *)
(* was.                                                                    *)
C18_ErrorChangesNothing ==
    [][(Completed /\ resp'.code \notin {200, 201}) => leaves' = leaves]_vars

(* A create was refused for its dates and the table is still empty.        *)
C18_Witness ==
    /\ resp.op \in CreateOps
    /\ resp.code = 400
    /\ leaves = <<>>

(* C19. A step that adds a leave adds exactly one, pending, with neither   *)
(* approved_by nor rejection_reason.                                       *)
C19_CreatedPending ==
    [][Len(leaves') # Len(leaves) =>
          /\ Len(leaves') = Len(leaves) + 1
          /\ resp'.op \in CreateOps
          /\ resp'.lid = Len(leaves')
          /\ leaves'[Len(leaves')].status = PENDING
          /\ leaves'[Len(leaves')].approved_by = None
          /\ leaves'[Len(leaves')].rejection_reason = None]_vars

(* HR created a leave on behalf of an employee.                            *)
C19_Witness ==
    /\ resp.op = "create_leave"
    /\ resp.code = 201
    /\ resp.lid \in DOMAIN leaves
    /\ leaves[resp.lid].status = PENDING

(* C20. Create with invalid dates.  The original statement: a create with  *)
(* start_date >= end_date, and a self-service create that starts before    *)
(* today, ends in a validation error (400 or 422) and adds no record.      *)
BadDates ==
    /\ Completed
    /\ resp'.op \in CreateOps
    /\ \/ resp'.body.start_date >= resp'.body.end_date
       \/ resp'.op = "create_leave_self_service" /\ date(resp'.body.start_date) < Today

C20_BadDatesAreInvalid ==
    [][BadDates => (resp'.code \in {400, 422} /\ leaves' = leaves)]_vars

(* C20 as amended: such a request never adds a record; it is answered 400  *)
(* when the caller passes the role gate of the endpoint and, for the       *)
(* self-service create, has an employee record; 403 when the caller does   *)
(* not pass the role gate, 404 when the employee record is not found.      *)
C20_BadDatesAreRefused ==
    [][BadDates =>
          /\ leaves' = leaves
          /\ resp'.code =
               IF resp'.op = "create_leave"
               THEN (IF is_hr(TokenData(resp'.user)) THEN 400 ELSE 403)
               ELSE (IF ~is_employee(TokenData(resp'.user)) THEN 403
                     ELSE IF resp'.emp = None THEN 404 ELSE 400)]_vars

(* A self-service create with a valid order of dates was refused because   *)
(* it starts before today.                                                 *)
C20_Witness ==
    /\ resp.op = "create_leave_self_service"
    /\ resp.code = 400
    /\ resp.body.start_date < resp.body.end_date
    /\ date(resp.body.start_date) < Today

(* The call under evaluation is a call of fn that has returned.            *)
Returned(fn) == call # None /\ call.fn = fn

(* C22. The gate of the self-service endpoints admits every authenticated  *)
(* principal, whatever groups its token carries.                           *)
C22_EveryPrincipalIsEmployee ==
    Returned("require_employee") => call.result = Some(200)

(* C23. is_hr holds exactly for a principal with the HR_Manager or         *)
(* HR_Admin role or one of the two HR groups, is_manager exactly for a     *)
(* principal with the manager, HR_Manager or HR_Admin role or one of the   *)
(* three manager groups; is_hr implies is_manager, and whoever require_hr  *)
(* admits require_manager admits.                                          *)
HasRoleOrGroup(user, roles, groups) ==
    \/ \E r \in user.roles : r \in roles
    \/ \E g \in user.groups : g.slashes = 0 /\ g.name \in groups

C23_HrIsManager ==
    /\ Returned("is_hr") =>
          call.result = Some(HasRoleOrGroup(CallUser, {"HR_Manager", "HR_Admin"},
                                            {"HR_Managers", "HR_Administrators"}))
    /\ Returned("is_manager") =>
          /\ call.result =
                Some(HasRoleOrGroup(CallUser, {"manager", "HR_Manager", "HR_Admin"},
                        {"Team_Managers", "HR_Managers", "HR_Administrators"}))
          /\ is_hr(CallUser) => call.result = Some(TRUE)
    /\ Returned("require_manager") =>
          (require_hr(CallUser) = 200 => call.result = Some(200))

(* require_manager admitted an HR principal whose only group carries a     *)
(* leading "/".                                                            *)
C23_Witness ==
    /\ Returned("require_manager")
    /\ call.result = Some(200)
    /\ call.groups = {Group(1, "HR_Administrators")}
    /\ require_hr(CallUser) = 200

(* C24. map_groups_to_roles gives exactly the roles of the recognised      *)
(* group names, a leading "/" removed, and ignores the other groups; is_hr *)
(* and is_manager decide the same with and without the leading "/".        *)
RoleOfGroup(n) ==
    CASE n = "HR_Administrators" -> "HR_Admin"
      [] n = "HR_Managers" -> "HR_Manager"
      [] n = "Team_Managers" -> "manager"
      [] n = "Employees" -> "employee"

RecognisedGroups == {"HR_Administrators", "HR_Managers", "Team_Managers", "Employees"}

WithoutSlash(groups) == {Group(0, g.name) : g \in groups}

C24_RolesAreUnionOfGroups ==
    /\ Returned("map_groups_to_roles") =>
          call.result =
             Some({RoleOfGroup(n) : n \in {g.name : g \in call.groups} \cap RecognisedGroups})
    /\ Returned("is_hr") =>
          call.result = Some(is_hr(decode_token("p", WithoutSlash(call.groups))))
    /\ Returned("is_manager") =>
          call.result = Some(is_manager(decode_token("p", WithoutSlash(call.groups))))

(* A claim with "/HR_Managers" and an unknown group was mapped to the      *)
(* HR_Manager role alone.                                                  *)
C24_Witness ==
    /\ Returned("map_groups_to_roles")
    /\ call.groups = {Group(1, "HR_Managers"), Group(0, "Contractors")}
    /\ call.result = Some({"HR_Manager"})

C21_DaysCountIsPositive ==
    \A l \in DOMAIN leaves :
        /\ leaves[l].start_date < leaves[l].end_date
        /\ LeavePublicEnriched(l).days_count =
              ((leaves[l].end_date - leaves[l].start_date) \div TicksPerDay) + 1
        /\ LeavePublicEnriched(l).days_count >= 1

(* A leave that starts and ends on the same day is stored: it counts one   *)
(* day.                                                                    *)
C21_Witness ==
    /\ 1 \in DOMAIN leaves
    /\ date(leaves[1].start_date) = date(leaves[1].end_date)
    /\ LeavePublicEnriched(1).days_count = 1

(* The read endpoints a principal without a manager or HR role can use to  *)
(* look at leaves, and the list endpoints that take filters.               *)
PlainReads == {"get_my_leaves", "list_leaves", "get_leave", "get_employee_leaves"}
ListReads == {"get_my_leaves", "list_all_leaves", "list_leaves", "get_employee_leaves"}
ReadBy(fns) == call # None /\ call.fn \in fns

(* C26. A principal who is neither HR nor a manager is never given a leave *)
(* of another employee by GET /leaves/me, /leaves/, /leaves/{id} or        *)
(* /leaves/employee/{id}.                                                  *)
C26_PlainEmployeeSeesOwnLeavesOnly ==
    (/\ ReadBy(PlainReads)
     /\ ~is_hr(TokenData(call.user))
     /\ ~is_manager(TokenData(call.user)))
       => \A row \in call.rows : row.employee_id = CallerId(call.user)

(* An employee asked for the leave of another employee and was refused.    *)
C26_Witness ==
    /\ ReadBy({"get_leave"})
    /\ call.user = "emp"
    /\ call.code = 403
    /\ call.rows = {}
    /\ leaves[1].employee_id # CallerId("emp")

(* C27. GET /leaves/pending returns pending leaves only; to a manager who  *)
(* is not HR only leaves of direct reports, and none when the directory    *)
(* does not list the team; to HR the pending leaves of every employee.     *)
PendingIds == {l \in DOMAIN leaves : leaves[l].status = PENDING}

C27_PendingInScope ==
    (ReadBy({"get_pending_leaves"}) /\ call.code = 200) =>
        /\ \A row \in call.rows : row.status = PENDING /\ row.id \in PendingIds
        /\ ~is_hr(TokenData(call.user)) =>
              /\ \A row \in call.rows :
                    DirectoryManagerId[row.employee_id] = CallerId(call.user)
              /\ ~call.args.up2 => call.rows = {}
        /\ (is_hr(TokenData(call.user)) /\ call.offset = 0) =>
              {row.id : row \in call.rows} = PendingIds

(* A manager who is not HR asked for the pending leaves while a pending    *)
(* leave of somebody outside the team was stored, and got an empty list.   *)
C27_Witness ==
    /\ ReadBy({"get_pending_leaves"})
    /\ call.user = "mgr"
    /\ call.code = 200
    /\ call.args.up2
    /\ call.rows = {}
    /\ PendingIds # {}

(* C29. A transition that is refused only for the status of the leave is   *)
(* reported with a status code other than the one a create with badly      *)
(* ordered dates is reported with.                                         *)
StatusConflict ==
    /\ Completed
    /\ resp'.lid \in DOMAIN leaves
    /\ \/ /\ resp'.op \in DecisionOps
          /\ is_manager(TokenData(resp'.user))
          /\ resp'.op = "reject_leave" => LeaveRejectRequest(resp'.body)
          /\ resp'.emp # None
          /\ leaves[resp'.lid].status # PENDING
       \/ /\ resp'.op = "cancel_leave"
          /\ is_hr(TokenData(resp'.user))
          /\ leaves[resp'.lid].status \in {REJECTED, CANCELLED}
       \/ /\ resp'.op = "cancel_my_leave"
          /\ resp'.emp = Some(leaves[resp'.lid].employee_id)
          /\ leaves[resp'.lid].status \in {REJECTED, CANCELLED}
    /\ resp'.code \notin {200, 201}

BadDateOrderCode == 400

C29_ConflictIsNotValidationError ==
    [][StatusConflict => resp'.code # BadDateOrderCode]_vars

(* C30. A list request of a caller the endpoint admits whose status or     *)
(* leave_type filter is not a value of the enumeration ends with a         *)
(* validation error; with a recognised status filter it returns only       *)
(* leaves of that status.                                                  *)
Admitted ==
    /\ call.code # 403
    /\ call.fn # "list_all_leaves" => get_employee_by_email(call.user, TRUE) # None
    /\ call.code # 404

BadFilter ==
    \/ Truthy(call.args.status) /\ call.args.status[1] \notin LeaveStatus
    \/ Truthy(call.args.leave_type) /\ call.args.leave_type[1] # ANNUAL

C30_BadFilterIsValidationError ==
    ReadBy(ListReads) =>
        /\ (BadFilter /\ Admitted) => call.code \in {400, 422}
        /\ (~BadFilter /\ call.code = 200 /\ Truthy(call.args.status)) =>
              \A row \in call.rows : row.status = call.args.status[1]

(* C28. The total_leaves of a dashboard summary equals the sum of its      *)
(* pending, approved, rejected and cancelled counts, also when other       *)
(* requests create or change leaves while it is computed.                  *)
C28_TotalIsSumOfCounts ==
    (/\ call # None
     /\ call.fn = "get_leave_dashboard_summary"
     /\ call.code = 200) =>
        LET summary == LeaveSummary(call.counts)
        IN summary.total_leaves =
              summary.pending_leaves + summary.approved_leaves
                 + summary.rejected_leaves + summary.cancelled_leaves

(* C31. On an endpoint that looks the caller up in the directory by the    *)
(* email of the token, a caller without a record (no entry, or directory   *)
(* unreachable) gets a not-found response, and no leave is returned.       *)
ResolvingReads ==
    {"get_my_leaves", "get_pending_leaves", "list_leaves", "get_leave",
     "get_employee_leaves"}

C31_UnknownCallerIsNotFound ==
    (/\ ReadBy(ResolvingReads)
     /\ get_employee_by_email(call.user, call.args.up) = None) =>
        /\ call.code = 404
        /\ call.rows = {}

(* C32. Round trip: after a create and an approve by somebody allowed to,  *)
(* with nothing else done to the leave, a fetch returns status approved,   *)
(* approved_by the employee id of the approver and no rejection_reason;    *)
(* after a create and a reject with a reason, a fetch returns status       *)
(* rejected and that rejection_reason.                                     *)
C32_RoundTrip ==
    (ReadBy({"get_leave"}) /\ call.code = 200 /\ resp.code = 200) =>
        \A row \in call.rows :
            /\ (resp.op = "approve_leave" /\ resp.lid = row.id) =>
                  /\ row.status = APPROVED
                  /\ row.approved_by = resp.emp
                  /\ row.rejection_reason = None
            /\ (resp.op = "reject_leave" /\ resp.lid = row.id) =>
                  /\ row.status = REJECTED
                  /\ row.rejection_reason = resp.body.rejection_reason

(* A leave was created, rejected with the reason "X" and fetched.          *)
C32_Witness ==
    /\ ReadBy({"get_leave"})
    /\ call.code = 200
    /\ resp.op = "reject_leave"
    /\ resp.code = 200
    /\ \E row \in call.rows :
          /\ row.id = resp.lid
          /\ row.status = REJECTED
          /\ row.rejection_reason = Some("X")

(* C33. A cache failure looks like a miss: when Redis is unreachable or    *)
(* holds data the helper cannot decode, a cache helper returns its miss or *)
(* failure value (None, False, 0 or the empty set) and does not raise.     *)
ReturnsOption == {"get_from_cache"}
ReturnsBool ==
    {"set_to_cache", "delete_from_cache", "clear_cache_pattern",
     "invalidate_dashboard_metrics", "invalidate_employee_leaves",
     "track_on_leave_today", "remove_on_leave_today"}
ReturnsInt ==
    {"increment_counter", "decrement_counter", "add_to_set", "remove_from_set",
     "set_count"}
ReturnsSet == {"get_set_members"}

CacheFailure ==
    \/ ~call.reachable
    \/ call.fn \in ReturnsOption /\ call.before \in {"garbage", "set"}
    \/ call.fn \in {"increment_counter", "decrement_counter"}
          /\ call.before \notin Counters
    \/ call.fn \in {"add_to_set", "remove_from_set", "set_count"} \cup ReturnsSet
          /\ call.before \notin Sets

C33_CacheFailureIsAMiss ==
    (call.fn # "-" /\ CacheFailure) =>
        /\ ~call.raised
        /\ call.fn \in ReturnsOption => call.value = None
        /\ call.fn \in ReturnsBool => call.value = FALSE
        /\ call.fn \in ReturnsInt => call.value = 0
        /\ call.fn \in ReturnsSet => call.value = {}

(* C34. An event is published only by a request that has committed its     *)
(* write first: when a response follows a publish attempt it is a success  *)
(* and the created row or the new status is in the table; a request that   *)
(* ends in an error response publishes nothing.                            *)
StatusWrittenBy(op) ==
    CASE op = "create_leave_self_service" -> PENDING
      [] op = "approve_leave" -> APPROVED
      [] op = "reject_leave" -> REJECTED
      [] OTHER -> CANCELLED

C34_PublishFollowsCommit ==
    [][(Completed /\ resp'.event # None) =>
          /\ resp'.code \in {200, 201}
          /\ resp'.lid \in DOMAIN leaves'
          /\ leaves'[resp'.lid].status = StatusWrittenBy(resp'.op)
          /\ resp'.op \in CreateOps => resp'.lid \notin DOMAIN leaves]_vars

(* An approve committed its write and published its event.                 *)
C34_Witness ==
    /\ resp.op = "approve_leave"
    /\ resp.code = 200
    /\ resp.event = Some(TRUE)
    /\ leaves[resp.lid].status = APPROVED

(* C35. An event published for a create, approve, reject or cancel carries *)
(* the event type of the transition, the id and the owner of the leave,    *)
(* and in its metadata the subject of the token of the caller as           *)
(* actor_user_id.                                                          *)
C35_EventNamesItsActor ==
    (resp.event = Some(TRUE)) =>
        LET event == EventEnvelope(resp.op, TokenData(resp.user), resp.lid)
        IN /\ event.event_type =
                 (CASE leaves[resp.lid].status = CANCELLED -> LEAVE_CANCELLED
                    [] leaves[resp.lid].status = APPROVED -> LEAVE_APPROVED
                    [] leaves[resp.lid].status = REJECTED -> LEAVE_REJECTED
                    [] OTHER -> LEAVE_REQUESTED)
           /\ event.data.leave_id = resp.lid
           /\ event.data.employee_id = leaves[resp.lid].employee_id
           /\ event.metadata.actor_user_id = Some(TokenData(resp.user).sub)

(* C36. Every authorization decision on a leave (approve, reject,          *)
(* self-service cancel, HR cancel, legacy status update), allowing or      *)
(* denying, appends exactly one audit entry with the principal, the        *)
(* action, the resource and the outcome.  Stated for the decisions the     *)
(* handlers take themselves, after the role gate of the endpoint.          *)
AuditedOps ==
    {"approve_leave", "reject_leave", "cancel_my_leave", "cancel_leave",
     "update_leave_status"}

PassedGate ==
    LET current_user == TokenData(resp.user)
    IN CASE resp.op = "cancel_my_leave" -> require_employee(current_user) = 200
         [] resp.op \in DecisionOps -> require_manager(current_user) = 200
         [] OTHER -> require_hr(current_user) = 200

C36_DecisionIsAudited ==
    (resp.op \in AuditedOps /\ PassedGate /\ resp.code \in {200, 403}) =>
        LET entries == AuditEntries(resp.op, resp.user, resp.lid, resp.code)
        IN /\ Len(entries) = 1
           /\ entries[1].user = TokenData(resp.user).email
           /\ entries[1].resource = <<"leave", resp.lid>>
           /\ entries[1].allowed = (resp.code = 200)

(* C38. A failure of the directory is not remembered: a call of            *)
(* verify_employee_exists(e) made while the directory is reachable and     *)
(* holds e returns True, whatever earlier calls made during an outage      *)
(* returned.                                                               *)
C38_OutageIsNotRemembered ==
    [][(/\ call'.fn = "verify_employee_exists"
        /\ call.reachable
        /\ call'.employee_id \in Employees) => call'.result = TRUE]_vars

(* C37. A team manager who is not HR is given a single leave, or the       *)
(* leaves of an employee, only when the owner is the manager or one of the *)
(* manager's team members.                                                 *)
C37_ManagerFetchesTeamOnly ==
    (/\ ReadBy({"get_leave", "get_employee_leaves"})
     /\ is_team_manager(TokenData(call.user))
     /\ ~is_hr(TokenData(call.user))
     /\ call.code = 200) =>
        \A row \in call.rows :
            \/ row.employee_id = CallerId(call.user)
            \/ DirectoryManagerId[row.employee_id] = CallerId(call.user)

(* C39. When a cancel and an approve or reject of the same pending leave   *)
(* run concurrently and the cancel is answered with success, the leave is  *)
(* cancelled after both have finished: the decision that commits after    *)
(* the cancel does not overwrite it.                                       *)
C39_CancelIsNotOverwritten ==
    [][(/\ resp.op \in CancelOps
        /\ resp.code = 200
        /\ Completed
        /\ resp'.op \in DecisionOps
        /\ resp'.code = 200
        /\ resp'.lid = resp.lid) => leaves'[resp.lid].status = CANCELLED]_vars

(* C40. The Kafka producer is a singleton: while stop() has not cleared    *)
(* it, at most one Producer is constructed and every caller of             *)
(* get_producer gets that one; after stop() has cleared it no Producer     *)
(* exists until start() is called.                                         *)
C40_ProducerIsASingleton ==
    /\ call.lifecycle = "never_stopped" =>
          /\ call.constructed <= 1
          /\ \A t \in Threads : call.got[t] \in {0, call._instance}
    /\ call.lifecycle = "stopped" => call._instance = 0

====
